---- MODULE Spec2Model ----
(***************************************************************************)
(* A model of ruls (src/main.rs), a small `ls` clone: the Entry Filter     *)
(* (should_include), the Comparator (compare_items, sort_items), the       *)
(* Listing Renderer (print_items) and the Traversal Driver (main,          *)
(* list_recursive, list_single_dir_or_file, list_dir).                     *)
(*                                                                         *)
(* Names are sequences of bytes, a path is a sequence of names, a printed  *)
(* line is a record [cols, text] with text the bytes of the line.          *)
(***************************************************************************)
EXTENDS Integers, Sequences, FiniteSets, TLC

VARIABLES
    args,       \* the parsed Args struct (main.rs 20-62)
    use_color,  \* main's use_color (main.rs 83-87)
    pc,         \* the position of the running operation
    name,       \* SpecFilter: the base name of the DirEntry given to should_include
    included,   \* SpecFilter: what should_include returned
    items,      \* SpecSort, SpecPrint: the Vec<Item> before the call
    sorted,     \* SpecSort: the Vec<Item> after sort_items
    printed,    \* SpecPrint: the lines print_items wrote
    fs,         \* Spec: the file system: node -> [kind, readable]
    paths,      \* Spec: args.paths
    idx,        \* Spec: how many iterations of main's loop have begun
    out,        \* Spec: standard output, a sequence of lines
    marks,      \* Spec: Len(out) at the start of each iteration of main's loop
    result,     \* Spec: main's io::Result: "running", "Ok" or "Err"
    walk,       \* Spec: the WalkDir iterator: a stack of sets of pending entries
    first_dir,  \* Spec: list_recursive's first_dir
    opened      \* Spec: per iteration, the directories read (read_dir or WalkDir)

vars == <<args, use_color, pc, name, included, items, sorted, printed,
          fs, paths, idx, out, marks, result, walk, first_dir, opened>>

---------------------------------------------------------------------------
(* Bytes the program writes or tests. Names are given by their bytes: 97 is
   "a", 98 "b", 100 "d", 104 "h", 108 "l", 66 "B", and 255 is no UTF-8. *)

Dot == 46
Space == 32
Slash == 47
Colon == 58
At == 64
Star == 42
Minus == 45
Greater == 62
LowerD == 100
LowerL == 108
Esc == 27

(* Bounds *)

MaxNameLen == 3
MaxItems == 3
MaxPaths == 2

---------------------------------------------------------------------------
(* The Args struct: the flags the modelled code reads. *)

Args ==
    [all : BOOLEAN, almost_all : BOOLEAN, long : BOOLEAN, recursive : BOOLEAN,
     reverse : BOOLEAN, sort_time : BOOLEAN, sort_size : BOOLEAN,
     one_per_line : BOOLEAN, classify : BOOLEAN, dirs_first : BOOLEAN]

NoArgs ==
    [all |-> FALSE, almost_all |-> FALSE, long |-> FALSE, recursive |-> FALSE,
     reverse |-> FALSE, sort_time |-> FALSE, sort_size |-> FALSE,
     one_per_line |-> FALSE, classify |-> FALSE, dirs_first |-> FALSE]

---------------------------------------------------------------------------
(* Entry Filter *)

\* OsStr::to_string_lossy: a byte that is no UTF-8 (here: above 127, alone)
\* becomes U+FFFD, three bytes; ASCII is kept.
RECURSIVE to_string_lossy(_)
to_string_lossy(n) ==
    IF n = <<>> THEN <<>>
    ELSE (IF Head(n) > 127 THEN <<239, 191, 189>> ELSE <<Head(n)>>)
         \o to_string_lossy(Tail(n))

\* str::starts_with('.')
starts_with_dot(n) == Len(n) > 0 /\ n[1] = Dot

should_include_no_almost(n, a) ==
    LET s == to_string_lossy(n)
    IN  IF ~starts_with_dot(s) THEN TRUE
        ELSE IF a.all THEN TRUE
        ELSE IF a.almost_all THEN TRUE
        ELSE FALSE

should_include(n, a) ==
    LET s == to_string_lossy(n)
    IN  IF ~starts_with_dot(s) THEN TRUE
        ELSE IF a.all THEN TRUE
        ELSE IF a.almost_all THEN s # <<Dot>> /\ s # <<Dot, Dot>>
        ELSE FALSE

---------------------------------------------------------------------------
(* Comparator *)

TicksPerSec == 2

\* Metadata::modified(): unavailable, or a time in ticks since the epoch
\* (negative: before the epoch).
Times == {[ok |-> FALSE, ticks |-> 0], [ok |-> TRUE, ticks |-> -1],
          [ok |-> TRUE, ticks |-> 2], [ok |-> TRUE, ticks |-> 3]}

mtime(meta) ==
    IF ~meta.modified.ok THEN 0
    ELSE IF meta.modified.ticks < 0 THEN 0
    ELSE meta.modified.ticks \div TicksPerSec

\* Ord::cmp on u64
cmp_u64(x, y) == IF x < y THEN "Less" ELSE IF x > y THEN "Greater" ELSE "Equal"

\* Ord::cmp on OsString: lexicographic on the bytes, a proper prefix first.
RECURSIVE cmp_bytes(_, _)
cmp_bytes(x, y) ==
    IF x = <<>> /\ y = <<>> THEN "Equal"
    ELSE IF x = <<>> THEN "Less"
    ELSE IF y = <<>> THEN "Greater"
    ELSE IF Head(x) < Head(y) THEN "Less"
    ELSE IF Head(x) > Head(y) THEN "Greater"
    ELSE cmp_bytes(Tail(x), Tail(y))

compare_items_size_first(a, b, g) ==
    LET bySize == cmp_u64(b.meta.len, a.meta.len)
        byTime == cmp_u64(mtime(b.meta), mtime(a.meta))
    IN  IF g.sort_size /\ bySize # "Equal" THEN bySize
        ELSE IF ~g.sort_size /\ g.sort_time /\ byTime # "Equal" THEN byTime
        ELSE IF g.dirs_first /\ a.meta.is_dir /\ ~b.meta.is_dir THEN "Less"
        ELSE IF g.dirs_first /\ ~a.meta.is_dir /\ b.meta.is_dir THEN "Greater"
        ELSE cmp_bytes(a.file_name, b.file_name)

compare_items_time_first(a, b, g) ==
    LET bySize == cmp_u64(b.meta.len, a.meta.len)
        byTime == cmp_u64(mtime(b.meta), mtime(a.meta))
    IN  IF g.dirs_first /\ a.meta.is_dir /\ ~b.meta.is_dir THEN "Less"
        ELSE IF g.dirs_first /\ ~a.meta.is_dir /\ b.meta.is_dir THEN "Greater"
        ELSE IF g.sort_time /\ byTime # "Equal" THEN byTime
        ELSE IF ~g.sort_time /\ g.sort_size /\ bySize # "Equal" THEN bySize
        ELSE cmp_bytes(a.file_name, b.file_name)

compare_items(a, b, g) ==
    LET bySize == cmp_u64(b.meta.len, a.meta.len)
        byTime == cmp_u64(mtime(b.meta), mtime(a.meta))
    IN  IF g.dirs_first /\ a.meta.is_dir /\ ~b.meta.is_dir THEN "Less"
        ELSE IF g.dirs_first /\ ~a.meta.is_dir /\ b.meta.is_dir THEN "Greater"
        ELSE IF g.sort_size /\ bySize # "Equal" THEN bySize
        ELSE IF ~g.sort_size /\ g.sort_time /\ byTime # "Equal" THEN byTime
        ELSE cmp_bytes(a.file_name, b.file_name)

\* slice::sort_by: a stable sort. x goes after every element it is not Less than.
RECURSIVE insert_sorted(_, _, _)
insert_sorted(x, s, g) ==
    IF s = <<>> THEN <<x>>
    ELSE IF compare_items(x, Head(s), g) = "Less" THEN <<x>> \o s
    ELSE <<Head(s)>> \o insert_sorted(x, Tail(s), g)

RECURSIVE sort_by(_, _)
sort_by(s, g) ==
    IF s = <<>> THEN <<>>
    ELSE insert_sorted(s[Len(s)], sort_by(SubSeq(s, 1, Len(s) - 1), g), g)

\* slice::reverse
reverse(s) == [k \in 1..Len(s) |-> s[Len(s) + 1 - k]]

sort_items_no_reverse(s, g) == sort_by(s, g)

sort_items(s, g) ==
    LET by == sort_by(s, g)
    IN  IF g.reverse THEN reverse(by) ELSE by

---------------------------------------------------------------------------
(* Metadata Accessor *)

\* A node of the file system: kind is "dir", "file", "symlink" or "absent";
\* readable says whether read_dir on it succeeds; link is what read_link
\* gives for a symlink.
Kinds == {"dir", "file", "symlink", "absent"}

\* fs::symlink_metadata: the metadata of the node itself, links not followed.
symlink_metadata(p) ==
    IF p \notin DOMAIN fs \/ fs[p].kind = "absent" THEN [ok |-> FALSE]
    ELSE [ok |-> TRUE,
          meta |-> [is_dir |-> fs[p].kind = "dir",
                    is_symlink |-> fs[p].kind = "symlink",
                    len |-> fs[p].len,
                    modified |-> fs[p].modified,
                    mode |-> fs[p].mode]]

\* fs::read_link
read_link(p) ==
    IF p \in DOMAIN fs /\ fs[p].kind = "symlink" THEN fs[p].link
    ELSE [ok |-> FALSE, target |-> <<>>]

\* Path::file_name: the last component of the path.
file_name_of(p) == p[Len(p)]

mk_item_from_path(p, meta) ==
    [path |-> p, file_name |-> file_name_of(p), meta |-> meta,
     is_symlink |-> meta.is_symlink]

\* The DirEntry of directory d named n; the Result of the stat it makes.
mk_item_from_entry(d, n) ==
    LET st == symlink_metadata(Append(d, n))
    IN  IF ~st.ok THEN [ok |-> FALSE]
        ELSE [ok |-> TRUE,
              item |-> [path |-> Append(d, n), file_name |-> n,
                        meta |-> st.meta, is_symlink |-> st.meta.is_symlink]]

\* mode & bit != 0, bit a power of two
has_bit(mode, bit) == (mode \div bit) % 2 = 1

is_executable(meta) ==
    (has_bit(meta.mode, 64) \/ has_bit(meta.mode, 8) \/ has_bit(meta.mode, 1))
    /\ ~meta.is_dir

---------------------------------------------------------------------------
(* Field Formatter *)

format_permissions(meta) ==
    LET file_type == IF meta.is_dir THEN LowerD
                     ELSE IF meta.is_symlink THEN LowerL ELSE Minus
        bit(b, ch) == IF has_bit(meta.mode, b) THEN ch ELSE Minus
    IN  <<file_type,
          bit(256, 114), bit(128, 119), bit(64, 120),
          bit(32, 114), bit(16, 119), bit(8, 120),
          bit(4, 114), bit(2, 119), bit(1, 120)>>

classify_suffix(it) ==
    IF it.meta.is_dir THEN <<Slash>>
    ELSE IF it.is_symlink THEN <<At>>
    ELSE IF is_executable(it.meta) THEN <<Star>>
    ELSE <<>>

\* owo_colors: ESC [ 3 x m, the name, ESC [ 3 9 m
paint(x, s) == <<Esc, 91, 51, x, 109>> \o s \o <<Esc, 91, 51, 57, 109>>

colorize_name(it, base) ==
    IF it.meta.is_dir THEN paint(52, base)
    ELSE IF it.is_symlink THEN paint(54, base)
    ELSE IF is_executable(it.meta) THEN paint(50, base)
    ELSE base

format_name(it, a, color) ==
    LET base == to_string_lossy(it.file_name)
        s == IF color THEN colorize_name(it, base) ELSE base
    IN  IF a.classify THEN s \o classify_suffix(it) ELSE s

\* Path::display
RECURSIVE display(_)
display(p) ==
    IF p = <<>> THEN <<>>
    ELSE IF Len(p) = 1 THEN to_string_lossy(p[1])
    ELSE to_string_lossy(p[1]) \o <<Slash>> \o display(Tail(p))

\* The long line: cols holds the permission string; the link count, owner,
\* group, size and time columns are not modelled. text is the name and the
\* symlink annotation.
format_long(it, a, color) ==
    LET link == read_link(it.path)
        link_part == IF it.is_symlink /\ link.ok
                     THEN <<Space, Minus, Greater, Space>> \o display(link.target)
                     ELSE <<>>
    IN  [cols |-> format_permissions(it.meta),
         text |-> format_name(it, a, color) \o link_part]

---------------------------------------------------------------------------
(* Listing Renderer *)

\* println!(text)
line(text) == [cols |-> <<>>, text |-> text]

\* The simple row: print!("  ") before every name but the first.
RECURSIVE join_row(_, _, _, _)
join_row(s, a, color, first) ==
    IF s = <<>> THEN <<>>
    ELSE (IF first THEN <<>> ELSE <<Space, Space>>)
         \o format_name(Head(s), a, color)
         \o join_row(Tail(s), a, color, FALSE)

print_items_one_per_line_first(s, a, color) ==
    IF s = <<>> THEN <<>>
    ELSE IF a.one_per_line
    THEN [k \in 1..Len(s) |-> line(format_name(s[k], a, color))]
    ELSE IF a.long
    THEN [k \in 1..Len(s) |-> format_long(s[k], a, color)]
    ELSE <<line(join_row(s, a, color, TRUE))>>

print_items(s, a, color) ==
    IF s = <<>> THEN <<>>
    ELSE IF a.long
    THEN [k \in 1..Len(s) |-> format_long(s[k], a, color)]
    ELSE IF a.one_per_line
    THEN [k \in 1..Len(s) |-> line(format_name(s[k], a, color))]
    ELSE <<line(join_row(s, a, color, TRUE))>>

---------------------------------------------------------------------------
(* The pure operations, each run on bounded inputs. *)

\* The sequences over S of length at most n.
RECURSIVE SeqsUpTo(_, _)
SeqsUpTo(S, n) ==
    IF n = 0 THEN {<<>>}
    ELSE LET shorter == SeqsUpTo(S, n - 1)
         IN  shorter \cup {Append(s, x) : s \in shorter, x \in S}

\* One enumeration of the set S.
RECURSIVE Enumerate(_)
Enumerate(S) ==
    IF S = {} THEN <<>>
    ELSE LET x == CHOOSE y \in S : TRUE
         IN  <<x>> \o Enumerate(S \ {x})

\* Orders a directory read may give the elements of the set S in: read_dir
\* promises none, the model takes every rotation of one enumeration.
Orders(S) ==
    LET e == Enumerate(S)
        n == Len(e)
    IN  IF n = 0 THEN {<<>>}
        ELSE {[k \in 1..n |-> e[((k + r - 1) % n) + 1]] : r \in 0..(n - 1)}

(* SpecFilter: should_include on one directory entry *)

\* A directory entry's name is not empty.
FilterNames == SeqsUpTo({Dot, 97, 255}, MaxNameLen) \ {<<>>}

InitFilter ==
    /\ args \in {[NoArgs EXCEPT !.all = x, !.almost_all = y] :
                    x \in BOOLEAN, y \in BOOLEAN}
    /\ use_color = FALSE
    /\ pc = "call"
    /\ name \in FilterNames
    /\ included = FALSE
    /\ items = <<>> /\ sorted = <<>> /\ printed = <<>> /\ fs = <<>>
    /\ paths = <<>> /\ idx = 0 /\ out = <<>> /\ marks = <<>>
    /\ result = "running" /\ walk = <<>> /\ first_dir = TRUE /\ opened = <<>>

Filter ==
    /\ pc = "call"
    /\ included' = should_include(name, args)
    /\ pc' = "returned"
    /\ UNCHANGED <<args, use_color, name, items, sorted, printed, fs, paths,
                   idx, out, marks, result, walk, first_dir, opened>>

NextFilter == Filter

SpecFilter == InitFilter /\ [][NextFilter]_vars

(* SpecSort: sort_items on the entries of one directory *)

SortNames == {<<Dot, 104>>, <<66>>, <<97>>, <<97, 98>>}

SortMetas ==
    [is_dir : BOOLEAN, is_symlink : {FALSE}, len : 0..1, modified : Times,
     mode : {420}]

\* The entries of a directory: pairwise distinct names.
SortDirs ==
    UNION {[S -> SortMetas] : S \in {T \in SUBSET SortNames : Cardinality(T) <= MaxItems}}

SortItem(n, m) ==
    [path |-> <<n>>, file_name |-> n, meta |-> m, is_symlink |-> m.is_symlink]

InitSort ==
    /\ args \in {[NoArgs EXCEPT !.dirs_first = d, !.sort_size = s,
                                 !.sort_time = t, !.reverse = r] :
                    d \in BOOLEAN, s \in BOOLEAN, t \in BOOLEAN, r \in BOOLEAN}
    /\ use_color = FALSE
    /\ pc = "call"
    /\ \E dir \in SortDirs :
          items = [n \in DOMAIN dir |-> SortItem(n, dir[n])]
    /\ name = <<>> /\ included = FALSE
    /\ sorted = <<>> /\ printed = <<>> /\ fs = <<>>
    /\ paths = <<>> /\ idx = 0 /\ out = <<>> /\ marks = <<>>
    /\ result = "running" /\ walk = <<>> /\ first_dir = TRUE /\ opened = <<>>

\* items is the directory (name -> Item); read_dir gives its entries in any
\* order, and sort_items sorts the Vec they were pushed to.
Sort ==
    /\ pc = "call"
    /\ \E o \in Orders(DOMAIN items) :
          sorted' = sort_items([k \in 1..Len(o) |-> items[o[k]]], args)
    /\ pc' = "returned"
    /\ UNCHANGED <<args, use_color, name, included, items, printed, fs, paths,
                   idx, out, marks, result, walk, first_dir, opened>>

NextSort == Sort

SpecSort == InitSort /\ [][NextSort]_vars

(* SpecPrint: print_items on a sequence of entries *)

PrintDir == << <<100>> >>

Node(kind, readable, len, ticks, mode, link) ==
    [kind |-> kind, readable |-> readable, len |-> len,
     modified |-> [ok |-> TRUE, ticks |-> ticks], mode |-> mode, link |-> link]

NoLink == [ok |-> FALSE, target |-> <<>>]

\* A directory d holding a directory, a dot-named file, an executable whose
\* name is no UTF-8, a symlink and a symlink whose target cannot be read.
PrintFs ==
    (PrintDir :> Node("dir", TRUE, 0, 2, 493, NoLink))
    @@ (<< <<100>>, <<97>>>> :> Node("dir", TRUE, 0, 2, 493, NoLink))
    @@ (<< <<100>>, <<Dot, 104>>>> :> Node("file", TRUE, 1, 2, 420, NoLink))
    @@ (<< <<100>>, <<66, 255>>>> :> Node("file", TRUE, 1, 3, 493, NoLink))
    @@ (<< <<100>>, <<108>>>> :>
            Node("symlink", TRUE, 1, 2, 511, [ok |-> TRUE, target |-> <<<<97>>>>]))
    @@ (<< <<100>>, <<97, 98>>>> :> Node("symlink", TRUE, 1, 2, 511, NoLink))

PrintNames ==
    {<<97>>, <<Dot, 104>>, <<66, 255>>, <<108>>, <<97, 98>>}

InitPrint ==
    /\ args \in {[NoArgs EXCEPT !.long = l, !.one_per_line = o, !.classify = c] :
                    l \in BOOLEAN, o \in BOOLEAN, c \in BOOLEAN}
    /\ use_color \in BOOLEAN
    /\ pc = "call"
    /\ fs = PrintFs
    /\ items \in {s \in SeqsUpTo({mk_item_from_entry(PrintDir, n).item : n \in PrintNames},
                                  MaxItems) :
                       \A i, j \in 1..Len(s) : i # j => s[i] # s[j]}
    /\ name = <<>> /\ included = FALSE
    /\ sorted = <<>> /\ printed = <<>>
    /\ paths = <<>> /\ idx = 0 /\ out = <<>> /\ marks = <<>>
    /\ result = "running" /\ walk = <<>> /\ first_dir = TRUE /\ opened = <<>>

PrintItems ==
    /\ pc = "call"
    /\ printed' = print_items(items, args, use_color)
    /\ pc' = "returned"
    /\ UNCHANGED <<args, use_color, name, included, items, sorted, fs, paths,
                   idx, out, marks, result, walk, first_dir, opened>>

NextPrint == PrintItems

SpecPrint == InitPrint /\ [][NextPrint]_vars

---------------------------------------------------------------------------
(* Traversal Driver *)

blank == line(<<>>)

\* println!("{}:", path.display())
header(p) == line(display(p) \o <<Colon>>)

IsDir(p) == p \in DOMAIN fs /\ fs[p].kind = "dir"

\* The names fs::read_dir(d) yields ("." and ".." are never among them).
Children(d) ==
    {file_name_of(p) : p \in {q \in DOMAIN fs :
        /\ Len(q) = Len(d) + 1
        /\ SubSeq(q, 1, Len(d)) = d
        /\ fs[q].kind # "absent"}}

\* Whether fs::read_dir(d) succeeds.
CanRead(d) == IsDir(d) /\ fs[d].readable

\* list_dir on directory d whose read_dir yields the names of o, in that order:
\* the Result and the lines printed.
list_dir(d, o, a, color) ==
    IF ~CanRead(d) THEN [ok |-> FALSE, lines |-> <<>>]
    ELSE LET kept == SelectSeq(o, LAMBDA n : should_include(n, a))
             made == [k \in 1..Len(kept) |-> mk_item_from_entry(d, kept[k])]
         IN  IF \E k \in 1..Len(made) : ~made[k].ok
             THEN [ok |-> FALSE, lines |-> <<>>]
             ELSE [ok |-> TRUE,
                   lines |-> print_items(
                       sort_items([k \in 1..Len(made) |-> made[k].item], a),
                       a, color)]

single_entry_filtered(p, meta, a, color) ==
    IF should_include(file_name_of(p), a)
    THEN print_items(<<mk_item_from_path(p, meta)>>, a, color)
    ELSE <<>>

\* The single-entry listing of a path that is no directory.
single_entry(p, meta, a, color) ==
    print_items(<<mk_item_from_path(p, meta)>>, a, color)

multiple_when_any(ps) == Len(ps) > 0

\* main's `multiple`
multiple(ps) == Len(ps) > 1

\* What main prints before the listing of the i-th path (i from 0).
main_prefix(i, p) ==
    (IF i > 0 THEN <<blank>> ELSE <<>>)
    \o (IF multiple(paths) THEN <<header(p)>> ELSE <<>>)

\* An Err item of the WalkDir iterator.
WalkErr == <<>>

\* The iterator of WalkDir::new(root): a stack of the entries still to yield,
\* the innermost directory's on top. A root that cannot be stat'ed yields an Err.
walk_new(root) ==
    IF symlink_metadata(root).ok THEN <<{root}>> ELSE <<{WalkErr}>>

\* The stack without its exhausted frames on top.
RECURSIVE walk_trim(_)
walk_trim(w) ==
    IF w = <<>> THEN <<>>
    ELSE IF w[Len(w)] = {} THEN walk_trim(SubSeq(w, 1, Len(w) - 1))
    ELSE w

\* The stack after entry e of the top frame was yielded. A directory
\* (links are not followed: a symlink is none) is opened: its entries are
\* yielded next, or one Err if it cannot be read.
walk_after(w, e) ==
    LET rest == [w EXCEPT ![Len(w)] = @ \ {e}]
    IN  walk_trim(
            IF e # WalkErr /\ IsDir(e)
            THEN Append(rest, IF CanRead(e)
                              THEN {Append(e, n) : n \in Children(e)}
                              ELSE {WalkErr})
            ELSE rest)

(* Spec: a run of main *)

NameA == <<97>>
NameB == <<98>>
NameDotD == <<Dot, 100>>
NameH == <<104>>
NameDotH == <<Dot, 104>>

\* The tree the file systems are drawn from: a, a/.d, a/.d/h, a/b and .h
PathA == <<NameA>>
PathAD == <<NameA, NameDotD>>
PathADH == <<NameA, NameDotD, NameH>>
PathAB == <<NameA, NameB>>
PathDotH == <<NameDotH>>

Nodes == {PathA, PathAD, PathADH, PathAB, PathDotH}

Parent(p) == SubSeq(p, 1, Len(p) - 1)

DriverNode(kind, readable) ==
    Node(kind, readable, 1, 2, 420,
         IF kind = "symlink" THEN [ok |-> TRUE, target |-> PathAB] ELSE NoLink)

\* The file systems: an entry exists only in a directory, and only a
\* directory can be unreadable.
FileSystems ==
    {f \in [Nodes -> {DriverNode(k, r) : k \in Kinds, r \in BOOLEAN}] :
        \A p \in Nodes :
            /\ f[p].kind # "dir" => f[p].readable
            /\ (Len(p) > 1 /\ f[Parent(p)].kind # "dir") => f[p].kind = "absent"
            /\ p = PathADH => f[p].kind \in {"file", "absent"}
            /\ p = PathAB => f[p].kind # "symlink"}

PathArgs == {PathA, PathDotH}

Init ==
    /\ args \in {[NoArgs EXCEPT !.recursive = r, !.all = x, !.almost_all = y,
                                 !.one_per_line = o, !.long = l] :
                    r \in BOOLEAN, x \in BOOLEAN, y \in BOOLEAN, o \in BOOLEAN,
                    l \in BOOLEAN}
    /\ use_color = FALSE
    /\ pc = "main"
    /\ fs \in FileSystems
    /\ paths \in SeqsUpTo(PathArgs, MaxPaths) \ {<<>>}
    /\ idx = 0
    /\ out = <<>>
    /\ marks = <<>>
    /\ result = "running"
    /\ walk = <<>>
    /\ first_dir = TRUE
    /\ opened = <<>>
    /\ name = <<>> /\ included = FALSE
    /\ items = <<>> /\ sorted = <<>> /\ printed = <<>>

\* One iteration of main's loop begins: the blank line and the header.
Begin(p) ==
    /\ pc = "main"
    /\ idx < Len(paths)
    /\ p = paths[idx + 1]
    /\ idx' = idx + 1
    /\ marks' = Append(marks, Len(out))

\* main returns the Err of the `?`.
Fail(lines) ==
    /\ out' = out \o lines
    /\ result' = "Err"
    /\ pc' = "done"

\* list_single_dir_or_file(p): the stat fails
SingleStatFails ==
    \E p \in Nodes :
        /\ Begin(p)
        /\ ~args.recursive
        /\ ~symlink_metadata(p).ok
        /\ Fail(main_prefix(idx, p))
        /\ opened' = Append(opened, {})
        /\ UNCHANGED <<args, use_color, name, included, items, sorted, printed,
                       fs, paths, walk, first_dir>>

\* list_single_dir_or_file(p): p is a directory
SingleDir ==
    \E p \in Nodes :
        /\ Begin(p)
        /\ ~args.recursive
        /\ symlink_metadata(p).ok /\ symlink_metadata(p).meta.is_dir
        /\ opened' = Append(opened, {p})
        /\ \E o \in Orders(Children(p)) :
              LET r == list_dir(p, o, args, use_color)
              IN  IF r.ok
                  THEN /\ out' = out \o main_prefix(idx, p) \o r.lines
                       /\ UNCHANGED <<pc, result>>
                  ELSE Fail(main_prefix(idx, p))
        /\ UNCHANGED <<args, use_color, name, included, items, sorted, printed,
                       fs, paths, walk, first_dir>>

\* list_single_dir_or_file(p): p is no directory
SingleFile ==
    \E p \in Nodes :
        /\ Begin(p)
        /\ ~args.recursive
        /\ symlink_metadata(p).ok /\ ~symlink_metadata(p).meta.is_dir
        /\ out' = out \o main_prefix(idx, p)
                      \o single_entry(p, symlink_metadata(p).meta, args, use_color)
        /\ opened' = Append(opened, {})
        /\ UNCHANGED <<args, use_color, pc, name, included, items, sorted, printed,
                       fs, paths, result, walk, first_dir>>

\* list_recursive(p): the stat succeeds and p is no directory
RecursiveFile ==
    \E p \in Nodes :
        /\ Begin(p)
        /\ args.recursive
        /\ symlink_metadata(p).ok /\ ~symlink_metadata(p).meta.is_dir
        /\ out' = out \o main_prefix(idx, p)
                      \o single_entry(p, symlink_metadata(p).meta, args, use_color)
        /\ opened' = Append(opened, {})
        /\ UNCHANGED <<args, use_color, pc, name, included, items, sorted, printed,
                       fs, paths, result, walk, first_dir>>

\* list_recursive(p): the stat fails or p is a directory: the walk begins
RecursiveWalk ==
    \E p \in Nodes :
        /\ Begin(p)
        /\ args.recursive
        /\ ~(symlink_metadata(p).ok /\ ~symlink_metadata(p).meta.is_dir)
        /\ out' = out \o main_prefix(idx, p)
        /\ walk' = walk_new(p)
        /\ first_dir' = TRUE
        /\ pc' = "walk"
        /\ opened' = Append(opened, {})
        /\ UNCHANGED <<args, use_color, name, included, items, sorted, printed,
                       fs, paths, result>>

\* The iterator yields an Err, which filter_map(Result::ok) drops, or an
\* entry that is no directory, which the filter drops.
WalkSkip ==
    /\ pc = "walk"
    /\ walk # <<>>
    /\ \E e \in walk[Len(walk)] :
          /\ e = WalkErr \/ ~IsDir(e)
          /\ walk' = walk_after(walk, e)
    /\ UNCHANGED <<args, use_color, pc, name, included, items, sorted, printed,
                   fs, paths, idx, out, marks, result, first_dir, opened>>

\* The iterator yields a directory: the loop body of list_recursive.
WalkDir ==
    /\ pc = "walk"
    /\ walk # <<>>
    /\ \E e \in walk[Len(walk)] :
          /\ e # WalkErr /\ IsDir(e)
          /\ walk' = walk_after(walk, e)
          /\ first_dir' = FALSE
          /\ opened' = [opened EXCEPT ![idx] = @ \cup {e}]
          /\ \E o \in Orders(Children(e)) :
                LET r == list_dir(e, o, args, use_color)
                    head == (IF first_dir THEN <<>> ELSE <<blank>>) \o <<header(e)>>
                IN  IF r.ok
                    THEN /\ out' = out \o head \o r.lines
                         /\ UNCHANGED <<pc, result>>
                    ELSE Fail(head)
    /\ UNCHANGED <<args, use_color, name, included, items, sorted, printed,
                   fs, paths, idx, marks>>

\* The iterator is exhausted: list_recursive returns Ok(()).
WalkEnd ==
    /\ pc = "walk"
    /\ walk = <<>>
    /\ pc' = "main"
    /\ UNCHANGED <<args, use_color, name, included, items, sorted, printed,
                   fs, paths, idx, out, marks, result, walk, first_dir, opened>>

\* The loop is over: main returns Ok(()).
MainReturns ==
    /\ pc = "main"
    /\ idx = Len(paths)
    /\ result' = "Ok"
    /\ pc' = "done"
    /\ UNCHANGED <<args, use_color, name, included, items, sorted, printed,
                   fs, paths, idx, out, marks, walk, first_dir, opened>>

Next ==
    \/ SingleStatFails
    \/ SingleDir
    \/ SingleFile
    \/ RecursiveFile
    \/ RecursiveWalk
    \/ WalkSkip
    \/ WalkDir
    \/ WalkEnd
    \/ MainReturns

Spec == Init /\ [][Next]_vars

---------------------------------------------------------------------------
(* Claims about the Entry Filter (SpecFilter) *)

IsDotName(n) == n # <<>> /\ Head(n) = Dot

\* C4: should_include returns true iff the name does not start with '.', or
\* show-all is set, or show-almost-all is set and the name is neither "." nor
\* ".."; so with neither flag no dot-name is included, and with show-all
\* every entry is.
C4_FilterRule ==
    pc = "returned" =>
        /\ included <=> \/ ~IsDotName(name)
                        \/ args.all
                        \/ args.almost_all /\ name \notin {<<Dot>>, <<Dot, Dot>>}
        /\ (~args.all /\ ~args.almost_all /\ IsDotName(name)) => ~included
        /\ args.all => included

C4_Witness ==
    /\ pc = "returned"
    /\ name = <<Dot, Dot>>
    /\ args.almost_all /\ ~args.all
    /\ ~included

---------------------------------------------------------------------------
(* Claims about the Comparator (SpecSort) *)

NoFileBeforeDir(s) ==
    \A i, j \in 1..Len(s) : i < j => ~(~s[i].meta.is_dir /\ s[j].meta.is_dir)

SameEntries(s, dir) ==
    /\ Len(s) = Cardinality(DOMAIN dir)
    /\ {s[k] : k \in 1..Len(s)} = {dir[n] : n \in DOMAIN dir}

\* C1 as stated: whenever dirs-first is set, whatever sort-by-size,
\* sort-by-time and reverse are, no non-directory is at an earlier position
\* than a directory in what sort_items produces.
C1_DirsFirstAnyOptions ==
    (pc = "returned" /\ args.dirs_first) => NoFileBeforeDir(sorted)

\* C1 as amended: whenever dirs-first is set and reverse is unset, whatever
\* sort-by-size and sort-by-time are, no non-directory is at an earlier
\* position than a directory in what sort_items produces.
C1_DirsFirstUnlessReversed ==
    (pc = "returned" /\ args.dirs_first /\ ~args.reverse) =>
        /\ NoFileBeforeDir(sorted)
        /\ SameEntries(sorted, items)

\* dirs-first alone decides: a file larger than a directory still follows it.
C1_Witness ==
    /\ pc = "returned"
    /\ args.dirs_first /\ ~args.reverse /\ args.sort_size
    /\ Len(sorted) = 3
    /\ sorted[1].meta.is_dir /\ ~sorted[2].meta.is_dir
    /\ sorted[2].meta.len > sorted[1].meta.len

IsMirror(a, b) ==
    /\ Len(a) = Len(b)
    /\ \A i \in 1..Len(a) : a[i] = b[Len(a) + 1 - i]

\* C5: for entries with pairwise distinct names and every combination of
\* dirs-first, sort-by-size and sort-by-time, what sort_items produces with
\* reverse set is the exact mirror of what it produces with reverse unset
\* (element i equals element n-1-i), whatever order the entries came in.
C5_ReverseIsMirror ==
    pc = "returned" =>
        \A o \in Orders(DOMAIN items) :
            IsMirror(sorted,
                     sort_items([k \in 1..Len(o) |-> items[o[k]]],
                                [args EXCEPT !.reverse = ~args.reverse]))

C5_Witness ==
    /\ pc = "returned"
    /\ args.reverse /\ args.dirs_first /\ args.sort_time
    /\ Len(sorted) = 3
    /\ sorted[3].meta.is_dir /\ ~sorted[1].meta.is_dir

\* The modification time in whole seconds since the epoch, 0 when there is none.
WholeSeconds(m) ==
    IF m.modified.ok /\ m.modified.ticks >= 0
    THEN CHOOSE q \in 0..m.modified.ticks :
            q * TicksPerSec <= m.modified.ticks /\ m.modified.ticks < (q + 1) * TicksPerSec
    ELSE 0

\* x is before y in byte-wise order.
BytesBefore(x, y) ==
    \E k \in 1..Len(y) :
        /\ k <= Len(x) + 1
        /\ \A i \in 1..(k - 1) : x[i] = y[i]
        /\ k = Len(x) + 1 \/ x[k] < y[k]

PrimaryKey(it) ==
    IF args.sort_size THEN it.meta.len
    ELSE IF args.sort_time THEN WholeSeconds(it.meta)
    ELSE 0

\* C6: with dirs-first and reverse unset, sort_items orders by one primary
\* key: descending size when sort-by-size is set (also when sort-by-time is
\* set too: the time is then not consulted), else descending modification
\* time in whole seconds when sort-by-time is set, else none; entries equal
\* on the key are in ascending byte-wise order of their names.
C6_OnePrimaryKey ==
    (pc = "returned" /\ ~args.dirs_first /\ ~args.reverse) =>
        /\ SameEntries(sorted, items)
        /\ \A i, j \in 1..Len(sorted) : i < j =>
              \/ PrimaryKey(sorted[i]) > PrimaryKey(sorted[j])
              \/ /\ PrimaryKey(sorted[i]) = PrimaryKey(sorted[j])
                 /\ BytesBefore(sorted[i].file_name, sorted[j].file_name)

\* Both keys set: of two entries of one size the older one comes first, by
\* its name, and a smaller entry comes last.
C6_Witness ==
    /\ pc = "returned"
    /\ ~args.dirs_first /\ ~args.reverse /\ args.sort_size /\ args.sort_time
    /\ Len(sorted) = 3
    /\ sorted[1].meta.len = sorted[2].meta.len
    /\ WholeSeconds(sorted[1].meta) < WholeSeconds(sorted[2].meta)
    /\ sorted[2].meta.len > sorted[3].meta.len

---------------------------------------------------------------------------
(* Claims about the Listing Renderer (SpecPrint) *)

ShownName(it) == format_name(it, args, use_color)

\* Where the k-th name starts in a row of names two spaces apart.
RECURSIVE RowOffset(_)
RowOffset(k) ==
    IF k = 1 THEN 0 ELSE RowOffset(k - 1) + Len(ShownName(items[k - 1])) + 2

IsRowOf(text, s) ==
    LET n == Len(s)
    IN  /\ Len(text) = RowOffset(n) + Len(ShownName(s[n]))
        /\ \A k \in 1..n :
              /\ SubSeq(text, RowOffset(k) + 1, RowOffset(k) + Len(ShownName(s[k])))
                    = ShownName(s[k])
              /\ k > 1 => /\ text[RowOffset(k) - 1] = Space
                          /\ text[RowOffset(k)] = Space

\* C9: for n entries print_items writes nothing when n = 0; otherwise n
\* lines in sequence order when long format is set (also when one-per-line
\* is set too), else n lines of one name each when one-per-line is set, else
\* one line holding the n names in order, two spaces apart.
C9_Layout ==
    pc = "returned" =>
        LET n == Len(items)
        IN  IF n = 0 THEN printed = <<>>
            ELSE IF args.long
            THEN /\ Len(printed) = n
                 /\ \A k \in 1..n :
                       /\ Len(printed[k].cols) = 10
                       /\ SubSeq(printed[k].text, 1, Len(ShownName(items[k])))
                             = ShownName(items[k])
            ELSE IF args.one_per_line
            THEN /\ Len(printed) = n
                 /\ \A k \in 1..n :
                       printed[k] = [cols |-> <<>>, text |-> ShownName(items[k])]
            ELSE /\ Len(printed) = 1
                 /\ printed[1].cols = <<>>
                 /\ IsRowOf(printed[1].text, items)

C9_Witness ==
    /\ pc = "returned"
    /\ args.long /\ args.one_per_line
    /\ Len(items) = 3
    /\ items[1] # items[2]
    /\ Len(printed) = 3
    /\ Len(printed[3].cols) = 10

---------------------------------------------------------------------------
(* Claims about the Traversal Driver (Spec) *)

\* What the k-th iteration of main's loop has printed.
Segment(k) ==
    SubSeq(out, marks[k] + 1, IF k < Len(marks) THEN marks[k + 1] ELSE Len(out))

\* The k-th iteration of main's loop is over.
Finished(k) == k < idx \/ (k = idx /\ pc \in {"main", "done"})

StatFails(p) == p \notin DOMAIN fs \/ fs[p].kind = "absent"

IsNonDir(p) == p \in DOMAIN fs /\ fs[p].kind \in {"file", "symlink"}

\* The blank line and the header the driver owes the k-th of the paths.
DriverLines(k) ==
    (IF k = 1 THEN <<>> ELSE <<blank>>)
    \o (IF Len(paths) > 1 THEN <<header(paths[k])>> ELSE <<>>)

\* The directories of the tree rooted at directory r, links not followed.
TreeDirs(r) ==
    {p \in DOMAIN fs : /\ Len(p) >= Len(r)
                       /\ SubSeq(p, 1, Len(r)) = r
                       /\ \A n \in Len(r)..Len(p) : fs[SubSeq(p, 1, n)].kind = "dir"}

\* The filtered, sorted listing of the immediate children of directory d.
ListingOf(d) ==
    LET shown == {n \in Children(d) : should_include(n, args)}
        its == [k \in 1..Cardinality(shown) |->
                    mk_item_from_entry(d, Enumerate(shown)[k]).item]
    IN  print_items(sort_items(its, args), args, use_color)

\* C2: failure to stat a top-level path argument is fatal whichever options
\* are set: the run ends with an error result, and nothing is printed for
\* any later path argument.
C2_StatFailureIsFatal ==
    \A k \in 1..idx :
        (StatFails(paths[k]) /\ Finished(k)) =>
            /\ result = "Err"
            /\ idx = k

\* C3: in recursive mode a directory met during the walk that cannot be
\* read is skipped: the walk goes on and the run still ends successfully;
\* in non-recursive mode a directory that cannot be read ends the run with
\* an error.
C3_UnreadableSkippedInWalk ==
    /\ (/\ args.recursive
        /\ pc = "done"
        /\ \A k \in 1..Len(paths) : IsDir(paths[k]) => CanRead(paths[k]))
           => result = "Ok"
    /\ \A k \in 1..idx :
          (~args.recursive /\ IsDir(paths[k]) /\ ~CanRead(paths[k]) /\ Finished(k))
              => result = "Err"

\* Every order of the elements of the set S.
RECURSIVE VisitOrders(_)
VisitOrders(S) ==
    IF S = {} THEN {<<>>}
    ELSE UNION {{<<x>> \o o : o \in VisitOrders(S \ {x})} : x \in S}

\* The recursive listing that visits the directories in the order o.
RECURSIVE Blocks(_, _)
Blocks(o, first) ==
    IF o = <<>> THEN <<>>
    ELSE (IF first THEN <<>> ELSE <<blank>>)
         \o <<header(Head(o))>> \o ListingOf(Head(o))
         \o Blocks(Tail(o), FALSE)

\* The one entry a path that is no directory is listed as.
OneEntry(p) ==
    print_items(<<mk_item_from_path(p, symlink_metadata(p).meta)>>, args, use_color)

\* The listings of path p: one entry for a non-directory, the children of a
\* directory, or in recursive mode its tree, in some order of the walk
\* (nothing for a path the walk cannot stat).
ListingsOfPath(p) ==
    IF IsNonDir(p) THEN {OneEntry(p)}
    ELSE IF StatFails(p) THEN {<<>>}
    ELSE IF ~args.recursive THEN {ListingOf(p)}
    ELSE {Blocks(o, TRUE) : o \in VisitOrders(TreeDirs(p))}

\* C7: in a run over N path arguments that meets no error the output is, for
\* each argument in command-line order: one blank line iff it is not the
\* first, then the header "<path>:" iff N > 1, then that path's listing.
C7_DriverFraming ==
    (pc = "done" /\ result = "Ok") =>
        /\ Len(marks) = Len(paths)
        /\ marks[1] = 0
        /\ \A k \in 1..Len(paths) :
              LET seg == Segment(k)
                  pre == DriverLines(k)
              IN  /\ k < Len(paths) => marks[k] <= marks[k + 1]
                  /\ Len(seg) >= Len(pre)
                  /\ SubSeq(seg, 1, Len(pre)) = pre
                  /\ SubSeq(seg, Len(pre) + 1, Len(seg)) \in ListingsOfPath(paths[k])

C7_Witness ==
    /\ pc = "done" /\ result = "Ok"
    /\ ~args.recursive
    /\ paths = <<PathA, PathDotH>>
    /\ IsDir(PathA) /\ IsNonDir(PathDotH)
    /\ Len(Segment(1)) = 2
    /\ Len(Segment(2)) = 3

\* C10: a path argument that the non-following stat reports as a
\* non-directory (a file, or a symlink) is rendered as exactly one entry in
\* both recursive and non-recursive mode: the Entry Filter is not applied (a
\* dot-named file is listed without show-all or show-almost-all), and no
\* directory is read.
C10_NonDirIsOneEntry ==
    \A k \in 1..idx :
        IsNonDir(paths[k]) =>
            LET seg == Segment(k)
                pre == DriverLines(k)
                shown == to_string_lossy(file_name_of(paths[k]))
            IN  /\ Len(seg) = Len(pre) + 1
                /\ SubSeq(seg, 1, Len(pre)) = pre
                /\ SubSeq(seg[Len(seg)].text, 1, Len(shown)) = shown
                /\ opened[k] = {}
                /\ Finished(k)

C10_Witness ==
    /\ pc = "done" /\ result = "Ok"
    /\ args.recursive /\ ~args.all /\ ~args.almost_all
    /\ paths = <<PathDotH, PathA>>
    /\ fs[PathDotH].kind = "symlink"
    /\ Len(Segment(1)) = 2
    /\ opened[2] # {}

\* The positions of segment s that hold the line l.
Places(l, s) == {i \in 1..Len(s) : s[i] = l}

\* C8: in recursive mode on a directory path argument, for any number of
\* path arguments, every directory of the tree rooted at that path has its
\* header printed exactly once in the output for that argument, followed by
\* the filtered, sorted listing of its immediate children, and a blank line
\* precedes the header of every visited directory except the first one.
C8_EachDirectoryOnce ==
    (args.recursive /\ pc = "done" /\ result = "Ok") =>
        \A k \in 1..Len(paths) :
            IsDir(paths[k]) =>
                LET seg == Segment(k)
                    heads == UNION {Places(header(d), seg) : d \in TreeDirs(paths[k])}
                IN  \A d \in TreeDirs(paths[k]) :
                        /\ Cardinality(Places(header(d), seg)) = 1
                        /\ \A i \in Places(header(d), seg) :
                              /\ SubSeq(seg, i + 1, i + Len(ListingOf(d))) = ListingOf(d)
                              /\ \/ \A j \in heads : i <= j
                                 \/ i > 1 /\ seg[i - 1] = blank

====
